---- MODULE Spec2Model ----
(***************************************************************************)
(* A model of dfdx's reverse-mode differentiation core: the gradient store *)
(* (Gradients), the gradient tape and its backward replay, the matmul      *)
(* kernel set of src/tensor_ops/matmul.rs and the Sgd optimizer of         *)
(* src/optim/sgd.rs.                                                       *)
(*                                                                         *)
(* Arrays are flat, 0-indexed functions (the row-major memory behind       *)
(* [[f32; N]; M] that the kernels hand to sgemm as raw pointers).  Values  *)
(* are integers: the inputs are drawn from f32 values on which every       *)
(* operation of the model is exact.                                        *)
(***************************************************************************)
EXTENDS Integers, Sequences, FiniteSets, TLC

VARIABLES
  \* ---- kernel harness (tests of matmul.rs) ----
  kpc,        \* "init" | "kernels" | "duality"
  kshape,     \* <<M, N, O>>
  kx,         \* an M x N matrix
  ky,         \* an N x O matrix
  kz,         \* an M x O matrix: prior content of out / downstream gradient
  kres,       \* what the harness computed
  \* ---- gradient store on its own ----
  gpc,        \* "off" | "run"
  gstore,     \* a Gradients value
  glast,      \* the last call on gstore and what it returned
  \* ---- tape: forward recording and backward replay ----
  tpc,        \* "off" | "forward" | "loss" | "backward" | "done"
  nextId,     \* the unique-id counter
  tensors,    \* every constructed tensor, by id
  rank,       \* 2 when the chain is of Tensor2D values, 1 when of Tensor1D
  cur,        \* the traced tensor at the end of the chain
  tape,       \* the tape cur owns: backward operations, in recording order
  side,       \* a second traced tensor and the tape it owns
  pending,    \* backward: the operations not yet run
  tgrads,     \* backward: the Gradients being populated
  ran,        \* backward: log of the operations run so far
  \* ---- optimizer ----
  spc,        \* "off" | "run" | "perfect" (the loop of tests::test_perfect_sgd)
  cfg,        \* SgdConfig
  params,     \* the model: a tuple of parameter tensors
  other,      \* a second instance of the model, with parameters of its own
  velocity,   \* Sgd.velocity
  gradients,  \* Sgd.gradients
  sres,       \* the last update call: what went in and what came out
  steps,      \* number of update calls made
  twin,       \* the same model under an Sgd that differs only in having weight
              \* decay disabled, given the same calls: its parameters and velocity
  gsum,       \* per parameter, the sum of the gradients the calls supplied for it
  \* ---- data loader ----
  lpc,        \* "off" | "builder" | "loader" | "moved" | "borrowed"
  loader,     \* the Builder, and the IterableDataLoader built from it
  it,         \* the iterator of batches (IntoIter or Iter)
  returned    \* log of what the calls of next on it returned

kvars == <<kpc, kshape, kx, ky, kz, kres>>
gvars == <<gpc, gstore, glast>>
tvars == <<tpc, nextId, tensors, rank, cur, tape, side, pending, tgrads, ran>>
svars == <<spc, cfg, params, other, velocity, gradients, sres, steps, twin, gsum>>
lvars == <<lpc, loader, it, returned>>
vars == <<kvars, gvars, tvars, svars, lvars>>

(***************************************************************************)
(* Arrays                                                                  *)
(***************************************************************************)
Arr(S, len) == [0..(len - 1) -> S]

Zeros(len) == [q \in 0..(len - 1) |-> 0]

Ones(len) == [q \in 0..(len - 1) |-> 1]

\* The r x c matrix whose row-major memory is a, transposed (c x r).
Transpose(a, r, c) == [q \in 0..(r * c - 1) |-> a[(q % r) * c + (q \div r)]]

\* Entry (i, j) of a row-major matrix with c columns.
At(a, c, i, j) == a[i * c + j]

\* The elementwise sum.
AddArr(a, b) == [q \in DOMAIN a |-> a[q] + b[q]]

(***************************************************************************)
(* matrixmultiply::sgemm: C <- alpha * A * B + beta * C, with A m x k,     *)
(* B k x n, C m x n, each addressed as ptr[i * rs + j * cs].               *)
(***************************************************************************)
RECURSIVE Dot(_, _, _, _, _, _, _, _, _)
Dot(k, a, rsa, csa, b, rsb, csb, i, j) ==
  IF k = 0 THEN 0
  ELSE Dot(k - 1, a, rsa, csa, b, rsb, csb, i, j)
       + a[i * rsa + (k - 1) * csa] * b[(k - 1) * rsb + j * csb]

sgemm(m, k, n, alpha, a, rsa, csa, b, rsb, csb, beta, c, rsc, csc) ==
  [q \in DOMAIN c |->
     IF \E i \in 0..(m - 1), j \in 0..(n - 1) : q = i * rsc + j * csc
     THEN LET ij == CHOOSE ij \in (0..(m - 1)) \X (0..(n - 1)) :
                      q = ij[1] * rsc + ij[2] * csc
          IN  alpha * Dot(k, a, rsa, csa, b, rsb, csb, ij[1], ij[2]) + beta * c[q]
     ELSE c[q]]

(***************************************************************************)
(* The kernels of matmul.rs.  M, N, O are each kernel's own const generics.*)
(***************************************************************************)
\* A stride slip: y is read with the strides of its transpose.
matmat_mul_into_ystrides(M, N, O, x, y, out) ==
  sgemm(M, N, O, 1, x, N, 1, y, 1, N, 1, out, O, 1)

\* x: M x N, y: N x O, out: M x O
matmat_mul_into(M, N, O, x, y, out) ==
  sgemm(M, N, O, 1, x, N, 1, y, O, 1, 1, out, O, 1)

\* beta = 0: out is overwritten, not accumulated into.
matmat_mul_into_xt_overwrite(M, N, O, x_t, y, out) ==
  sgemm(M, N, O, 1, x_t, 1, M, y, O, 1, 0, out, O, 1)

\* x_t: N x M, y: N x O, out: M x O
matmat_mul_into_xt(M, N, O, x_t, y, out) ==
  sgemm(M, N, O, 1, x_t, 1, M, y, O, 1, 1, out, O, 1)

\* x: M x N, y_t: O x N, out: M x O
matmat_mul_into_yt(M, N, O, x, y_t, out) ==
  sgemm(M, N, O, 1, x, N, 1, y_t, 1, N, 1, out, O, 1)

\* A stride slip: out_t is written with the strides of a plain O x M result.
matmat_mul_into_xtzt_plainout(M, N, O, x_t, y, out_t) ==
  sgemm(M, N, O, 1, x_t, 1, M, y, O, 1, 1, out_t, M, 1)

\* x_t: N x M, y: N x O, out_t: O x M
matmat_mul_into_xtzt(M, N, O, x_t, y, out_t) ==
  sgemm(M, N, O, 1, x_t, 1, M, y, O, 1, 1, out_t, 1, M)

\* x: N, y: N x O, out: O
vecmat_mul_into(N, O, x, y, out) ==
  sgemm(1, N, O, 1, x, N, 1, y, O, 1, 1, out, O, 1)

\* x: N, y_t: O x N, out: O
vecmat_mul_into_yt(N, O, x, y_t, out) ==
  sgemm(1, N, O, 1, x, N, 1, y_t, 1, N, 1, out, O, 1)

\* x: M, y: O, out: M x O (the outer product)
vecvec_mul_into(M, O, x, y, out) ==
  sgemm(M, 1, O, 1, x, 1, 1, y, O, 1, 1, out, O, 1)

(***************************************************************************)
(* Gradients: a collection of gradient buffers keyed by tensor id.  It is  *)
(* kept as a set of entries so that "one buffer per id" is a property of   *)
(* the operations and not of the representation.                           *)
(***************************************************************************)
None == [some |-> FALSE]

Some(v) == [some |-> TRUE, val |-> v]

Has(G, id) == \E e \in G : e.id = id

Buf(G, id) == (CHOOSE e \in G : e.id = id).buf

\* Allocate on miss: a second entry for an id that is already present.
or_insert_zeros_always(G, id, len) == G \cup {[id |-> id, buf |-> Zeros(len)]}

\* Allocate-on-miss: the entry for id, zero-filled when it was absent.
or_insert_zeros(G, id, len) ==
  IF Has(G, id) THEN G ELSE G \cup {[id |-> id, buf |-> Zeros(len)]}

\* get_or_zero: an immutable view of id's buffer.
ref_gradient(G, id, len) ==
  LET G1 == or_insert_zeros(G, id, len)
  IN  [store |-> G1, ret |-> Buf(G1, id)]

\* mut: a mutable view of id's buffer.
mut_gradient(G, id, len) ==
  LET G1 == or_insert_zeros(G, id, len)
  IN  [store |-> G1, ret |-> Buf(G1, id)]

\* A write through the mutable view that mut_gradient / mut_and_ref returned.
Write(G, id, buf) == {e \in G : e.id # id} \cup {[id |-> id, buf |-> buf]}

\* remove that hands the buffer out and keeps the entry.
remove_keeps_entry(G, id) ==
  IF Has(G, id) THEN [store |-> G, ret |-> Some(Buf(G, id))]
  ELSE [store |-> G, ret |-> None]

\* remove: the buffer moves to the caller, the entry is deleted.
remove(G, id) ==
  IF Has(G, id)
  THEN [store |-> {e \in G : e.id # id}, ret |-> Some(Buf(G, id))]
  ELSE [store |-> G, ret |-> None]

\* The dual fetch without its assertion.
mut_and_ref_unchecked(G, l, llen, r, rlen) ==
  LET G1 == mut_gradient(G, l, llen).store
      G2 == ref_gradient(G1, r, rlen).store
  IN  [panic |-> FALSE, store |-> G2, m |-> Buf(G2, l), r |-> Buf(G2, r),
       asked |-> <<l, r>>]

\* get_mut_and_ref: (mutable buffer of l, immutable buffer of r); l # r.
mut_and_ref(G, l, llen, r, rlen) ==
  IF l = r THEN [panic |-> TRUE, store |-> G, asked |-> <<l, r>>]
  ELSE LET G1 == mut_gradient(G, l, llen).store
           G2 == ref_gradient(G1, r, rlen).store
       IN  [panic |-> FALSE, store |-> G2, m |-> Buf(G2, l), r |-> Buf(G2, r),
            asked |-> <<l, r>>]

(***************************************************************************)
(* Tensors and the traced operations of matmul.rs.  A tensor is its id,    *)
(* its shape and its data; a phantom is a tensor without the data.  A      *)
(* recorded backward operation is the closure's captured state.            *)
(***************************************************************************)
Tensor(id, rows, cols, data) ==
  [id |-> id, rows |-> rows, cols |-> cols, data |-> data]

phantom(t) == [id |-> t.id, rows |-> t.rows, cols |-> t.cols]

Numel(t) == t.rows * t.cols

\* Recording at the front of the tape.
add_backward_op_front(tape_, op) == <<op>> \o tape_

\* Tape::add_backward_op (record): the operation goes to the end of the tape.
add_backward_op(tape_, op) == Append(tape_, op)

\* Concatenation with the donor's operations first.
merge_donor_first(tape_, donor) == [tape |-> donor \o tape_, donor |-> <<>>]

\* Tape::merge: the receiver's operations, then the donor's; the donor tape
\* is left empty.
merge(tape_, donor) == [tape |-> tape_ \o donor, donor |-> <<>>]

\* The closure matmul records, with the two targets exchanged.
matmul_backward_swapped(op, grads) ==
  LET M == op.lhs.rows
      N == op.lhs.cols
      O == op.rhs.cols
      f1 == mut_and_ref(grads, op.rhs.id, Numel(op.rhs), op.result.id, Numel(op.result))
      g1 == Write(f1.store, op.rhs.id,
                  matmat_mul_into_xt(N, M, O, op.lhs.data, f1.r, f1.m))
      f2 == mut_and_ref(g1, op.result.id, Numel(op.result), op.lhs.id, Numel(op.lhs))
  IN  IF f1.panic THEN [panic |-> TRUE, store |-> grads, fetches |-> <<f1.asked>>]
      ELSE IF f2.panic
           THEN [panic |-> TRUE, store |-> g1, fetches |-> <<f1.asked, f2.asked>>]
      ELSE [panic |-> FALSE, store |-> f2.store, fetches |-> <<f1.asked, f2.asked>>]

\* The closure matmul records (matmul.rs 33-39), run against grads.
matmul_backward(op, grads) ==
  LET M == op.lhs.rows
      N == op.lhs.cols
      O == op.rhs.cols
      f1 == mut_and_ref(grads, op.lhs.id, Numel(op.lhs), op.result.id, Numel(op.result))
      g1 == Write(f1.store, op.lhs.id,
                  matmat_mul_into_yt(M, O, N, f1.r, op.rhs_data, f1.m))
      f2 == mut_and_ref(g1, op.rhs.id, Numel(op.rhs), op.result.id, Numel(op.result))
      g2 == Write(f2.store, op.rhs.id,
                  matmat_mul_into_xt(N, M, O, op.lhs.data, f2.r, f2.m))
  IN  IF f1.panic THEN [panic |-> TRUE, store |-> grads, fetches |-> <<f1.asked>>]
      ELSE IF f2.panic
           THEN [panic |-> TRUE, store |-> g1, fetches |-> <<f1.asked, f2.asked>>]
      ELSE [panic |-> FALSE, store |-> g2, fetches |-> <<f1.asked, f2.asked>>]

\* The closure matmul_transpose records (matmul.rs 73-79); rhs is O x N.
matmul_transpose_backward(op, grads) ==
  LET M == op.lhs.rows
      N == op.lhs.cols
      O == op.rhs.rows
      f1 == mut_and_ref(grads, op.lhs.id, Numel(op.lhs), op.result.id, Numel(op.result))
      g1 == Write(f1.store, op.lhs.id,
                  matmat_mul_into(M, O, N, f1.r, op.rhs_data, f1.m))
      f2 == mut_and_ref(g1, op.rhs.id, Numel(op.rhs), op.result.id, Numel(op.result))
      g2 == Write(f2.store, op.rhs.id,
                  matmat_mul_into_xtzt(N, M, O, op.lhs.data, f2.r, f2.m))
  IN  IF f1.panic THEN [panic |-> TRUE, store |-> grads, fetches |-> <<f1.asked>>]
      ELSE IF f2.panic
           THEN [panic |-> TRUE, store |-> g1, fetches |-> <<f1.asked, f2.asked>>]
      ELSE [panic |-> FALSE, store |-> g2, fetches |-> <<f1.asked, f2.asked>>]

\* matmul that records on a new tape instead of the one lhs carried.
matmul_drops_tape(lhs, ltape, rhs, id) ==
  LET M == lhs.rows
      N == lhs.cols
      O == rhs.cols
      result == Tensor(id, M, O,
                       matmat_mul_into(M, N, O, lhs.data, rhs.data, Zeros(M * O)))
      op == [kind |-> "matmul", lhs |-> lhs, rhs |-> phantom(rhs),
             rhs_data |-> rhs.data, result |-> phantom(result)]
  IN  [result |-> result, tape |-> <<op>>]

\* matmul(lhs, &rhs): lhs is M x N with tape ltape, rhs is N x O and untracked;
\* id is the unique id of the result tensor that Tensor2D::zeros() constructs.
matmul(lhs, ltape, rhs, id) ==
  LET M == lhs.rows
      N == lhs.cols
      O == rhs.cols
      result == Tensor(id, M, O,
                       matmat_mul_into(M, N, O, lhs.data, rhs.data, Zeros(M * O)))
      op == [kind |-> "matmul", lhs |-> lhs, rhs |-> phantom(rhs),
             rhs_data |-> rhs.data, result |-> phantom(result)]
  IN  [result |-> result, tape |-> add_backward_op(ltape, op)]

\* matmul_transpose(lhs, &rhs_t): lhs is M x N, rhs_t is O x N.
matmul_transpose(lhs, ltape, rhs_t, id) ==
  LET M == lhs.rows
      N == lhs.cols
      O == rhs_t.rows
      result == Tensor(id, M, O,
                       matmat_mul_into_yt(M, N, O, lhs.data, rhs_t.data, Zeros(M * O)))
      op == [kind |-> "matmul_transpose", lhs |-> lhs, rhs |-> phantom(rhs_t),
             rhs_data |-> rhs_t.data, result |-> phantom(result)]
  IN  [result |-> result, tape |-> add_backward_op(ltape, op)]

\* The closure vecmat_mul records (matmul.rs 112-118); lhs is N, rhs is N x O.
vecmat_mul_backward(op, grads) ==
  LET N == op.lhs.cols
      O == op.rhs.cols
      f1 == mut_and_ref(grads, op.lhs.id, Numel(op.lhs), op.result.id, Numel(op.result))
      g1 == Write(f1.store, op.lhs.id,
                  vecmat_mul_into_yt(O, N, f1.r, op.rhs_data, f1.m))
      f2 == mut_and_ref(g1, op.rhs.id, Numel(op.rhs), op.result.id, Numel(op.result))
      g2 == Write(f2.store, op.rhs.id,
                  vecvec_mul_into(N, O, op.lhs.data, f2.r, f2.m))
  IN  IF f1.panic THEN [panic |-> TRUE, store |-> grads, fetches |-> <<f1.asked>>]
      ELSE IF f2.panic
           THEN [panic |-> TRUE, store |-> g1, fetches |-> <<f1.asked, f2.asked>>]
      ELSE [panic |-> FALSE, store |-> g2, fetches |-> <<f1.asked, f2.asked>>]

\* The closure vecmat_mul_transpose records (matmul.rs 151-157); rhs is O x N.
vecmat_mul_transpose_backward(op, grads) ==
  LET N == op.lhs.cols
      O == op.rhs.rows
      f1 == mut_and_ref(grads, op.lhs.id, Numel(op.lhs), op.result.id, Numel(op.result))
      g1 == Write(f1.store, op.lhs.id,
                  vecmat_mul_into(O, N, f1.r, op.rhs_data, f1.m))
      f2 == mut_and_ref(g1, op.rhs.id, Numel(op.rhs), op.result.id, Numel(op.result))
      g2 == Write(f2.store, op.rhs.id,
                  vecvec_mul_into(O, N, f2.r, op.lhs.data, f2.m))
  IN  IF f1.panic THEN [panic |-> TRUE, store |-> grads, fetches |-> <<f1.asked>>]
      ELSE IF f2.panic
           THEN [panic |-> TRUE, store |-> g1, fetches |-> <<f1.asked, f2.asked>>]
      ELSE [panic |-> FALSE, store |-> g2, fetches |-> <<f1.asked, f2.asked>>]

\* vecmat_mul(lhs, &rhs): lhs is a Tensor1D<N> (kept as 1 x N) with tape ltape,
\* rhs is N x O and untracked; the result is a Tensor1D<O>.
vecmat_mul(lhs, ltape, rhs, id) ==
  LET N == lhs.cols
      O == rhs.cols
      result == Tensor(id, 1, O,
                       vecmat_mul_into(N, O, lhs.data, rhs.data, Zeros(O)))
      op == [kind |-> "vecmat_mul", lhs |-> lhs, rhs |-> phantom(rhs),
             rhs_data |-> rhs.data, result |-> phantom(result)]
  IN  [result |-> result, tape |-> add_backward_op(ltape, op)]

\* vecmat_mul_transpose(lhs, &rhs_t): lhs is a Tensor1D<N>, rhs_t is O x N.
vecmat_mul_transpose(lhs, ltape, rhs_t, id) ==
  LET N == lhs.cols
      O == rhs_t.rows
      result == Tensor(id, 1, O,
                       vecmat_mul_into_yt(N, O, lhs.data, rhs_t.data, Zeros(O)))
      op == [kind |-> "vecmat_mul_transpose", lhs |-> lhs, rhs |-> phantom(rhs_t),
             rhs_data |-> rhs_t.data, result |-> phantom(result)]
  IN  [result |-> result, tape |-> add_backward_op(ltape, op)]

\* Any other differentiable operation that ends the chain in a scalar (such
\* as mul(w).sum()): its backward closure reads the scalar's gradient and
\* accumulates w times it into its input's slot.
reduce_backward(op, grads) ==
  LET f1 == mut_and_ref(grads, op.lhs.id, Numel(op.lhs), op.result.id, Numel(op.result))
  IN  IF f1.panic THEN [panic |-> TRUE, store |-> grads, fetches |-> <<f1.asked>>]
      ELSE [panic |-> FALSE,
            store |-> Write(f1.store, op.lhs.id,
                            [q \in DOMAIN f1.m |-> f1.m[q] + op.w[q] * f1.r[0]]),
            fetches |-> <<f1.asked>>]

RECURSIVE SumProd(_, _, _)
SumProd(a, b, n) == IF n = 0 THEN 0 ELSE SumProd(a, b, n - 1) + a[n - 1] * b[n - 1]

reduce(lhs, ltape, w, id) ==
  LET result == Tensor(id, 1, 1, [q \in {0} |-> SumProd(lhs.data, w, Numel(lhs))])
      op == [kind |-> "reduce", lhs |-> lhs, w |-> w, result |-> phantom(result)]
  IN  [result |-> result, tape |-> add_backward_op(ltape, op)]

\* A binary operation on two traced tensors (elementwise add): its closure
\* accumulates the result's gradient into each operand's slot.
add_backward(op, grads) ==
  LET f1 == mut_and_ref(grads, op.lhs.id, Numel(op.lhs), op.result.id, Numel(op.result))
      g1 == Write(f1.store, op.lhs.id, AddArr(f1.m, f1.r))
      f2 == mut_and_ref(g1, op.rhs.id, Numel(op.rhs), op.result.id, Numel(op.result))
      g2 == Write(f2.store, op.rhs.id, AddArr(f2.m, f2.r))
  IN  IF f1.panic THEN [panic |-> TRUE, store |-> grads, fetches |-> <<f1.asked>>]
      ELSE IF f2.panic
           THEN [panic |-> TRUE, store |-> g1, fetches |-> <<f1.asked, f2.asked>>]
      ELSE [panic |-> FALSE, store |-> g2, fetches |-> <<f1.asked, f2.asked>>]

\* add(lhs, rhs), both traced: the tapes are merged into the result's, the
\* new operation is recorded after them, and rhs's tape is left empty.
add(lhs, ltape, rhs, rtape, id) ==
  LET result == Tensor(id, lhs.rows, lhs.cols, AddArr(lhs.data, rhs.data))
      op == [kind |-> "add", lhs |-> lhs, rhs |-> phantom(rhs),
             rhs_data |-> rhs.data, result |-> phantom(result)]
      m == merge(ltape, rtape)
  IN  [result |-> result, tape |-> add_backward_op(m.tape, op), donor |-> m.donor]

\* Invoking a recorded backward operation on the gradient store.
RunOp(op, grads) ==
  CASE op.kind = "matmul" -> matmul_backward(op, grads)
    [] op.kind = "matmul_transpose" -> matmul_transpose_backward(op, grads)
    [] op.kind = "vecmat_mul" -> vecmat_mul_backward(op, grads)
    [] op.kind = "vecmat_mul_transpose" -> vecmat_mul_transpose_backward(op, grads)
    [] op.kind = "add" -> add_backward(op, grads)
    [] op.kind = "reduce" -> reduce_backward(op, grads)

(***************************************************************************)
(* Values the other parts hold while one part runs.                        *)
(***************************************************************************)
KOff == /\ kpc = "off" /\ kshape = <<1, 1, 1>>
        /\ kx = Zeros(1) /\ ky = Zeros(1) /\ kz = Zeros(1)
        /\ kres = [t |-> "none"]

\* No call made yet.
NoCall == [op |-> "none", id |-> 0, id2 |-> 0, before |-> {}, alloc |-> {},
           ret |-> None, panic |-> FALSE, dirty |-> {},
           prev |-> [op |-> "none", id |-> 0, ret |-> None]]

GOff == /\ gpc = "off" /\ gstore = {} /\ glast = NoCall

\* No second traced tensor.
NoSide == [st |-> "none", t |-> [id |-> 0, rows |-> 1, cols |-> 1, data |-> Zeros(1)],
           tape |-> <<>>]

TOff == /\ tpc = "off" /\ nextId = 1 /\ tensors = {} /\ rank = 2
        /\ cur = [id |-> 0, rows |-> 1, cols |-> 1, data |-> Zeros(1)]
        /\ side = NoSide
        /\ tape = <<>> /\ pending = <<>> /\ tgrads = {} /\ ran = <<>>

SOff == /\ spc = "off"
        /\ cfg = [lr |-> 0, momentum |-> [kind |-> "None", num |-> 0, den |-> 1],
                  weight_decay |-> None]
        /\ params = <<>> /\ other = <<>> /\ velocity = {}
        /\ gradients = {} /\ sres = [t |-> "none"] /\ steps = 0
        /\ twin = [params |-> <<>>, other |-> <<>>, velocity |-> {}] /\ gsum = <<>>

LOff == /\ lpc = "off"
        /\ loader = [dataset |-> <<>>, batch_size |-> 1, shuffle |-> FALSE, drop_last |-> FALSE]
        /\ it = [dataset_iter |-> <<>>, batch_size |-> 0, shuffle |-> FALSE, drop_last |-> FALSE]
        /\ returned = <<>>

(***************************************************************************)
(* The kernel harness: the unit tests of matmul.rs on every input of a     *)
(* bounded set, with out holding arbitrary prior content.                  *)
(***************************************************************************)
Dims == {1, 2}

XVals == {-1, 2}

ZVals == {0, 1}

KInit ==
  /\ kpc = "init"
  /\ \E sh \in Dims \X Dims \X Dims :
       /\ kshape = sh
       /\ kx \in Arr(XVals, sh[1] * sh[2])
       /\ ky \in Arr(XVals, sh[2] * sh[3])
       /\ kz \in Arr(ZVals, sh[1] * sh[3])
  /\ kres = [t |-> "none"]
  /\ GOff /\ TOff /\ SOff /\ LOff

\* tests::test_matmul: the three kernels on x, y and their transposes.
TestMatmulKernels ==
  /\ kpc = "init"
  /\ LET M == kshape[1]
         N == kshape[2]
         O == kshape[3]
     IN  kres' = [t |-> "kernels",
                  plain |-> matmat_mul_into(M, N, O, kx, ky, kz),
                  xt |-> matmat_mul_into_xt(M, N, O, Transpose(kx, M, N), ky, kz),
                  yt |-> matmat_mul_into_yt(M, N, O, kx, Transpose(ky, N, O), kz)]
  /\ kpc' = "kernels"
  /\ UNCHANGED <<kshape, kx, ky, kz, gvars, tvars, svars, lvars>>

\* One traced operation and its backward closure run on a store that holds
\* g as the gradient of the result: [fwd, ga, gb].
ForwardBackward(f, a, b, g) ==
  LET bw == RunOp(f.tape[1], {[id |-> f.result.id, buf |-> g]})
  IN  [fwd |-> f.result.data, panic |-> bw.panic,
       ga |-> Buf(bw.store, a.id), gb |-> Buf(bw.store, b.id)]

\* tests::test_matmat_mul and tests::test_matmul_transpose on the same a, b
\* and the same downstream gradient kz.
TestDuality ==
  /\ kpc = "init"
  /\ LET M == kshape[1]
         N == kshape[2]
         O == kshape[3]
         a == Tensor(1, M, N, kx)
         b == Tensor(2, N, O, ky)
         b_t == Tensor(2, O, N, Transpose(ky, N, O))
     IN  kres' = [t |-> "duality",
                  mm |-> ForwardBackward(matmul(a, <<>>, b, 3), a, b, kz),
                  mt |-> ForwardBackward(matmul_transpose(a, <<>>, b_t, 3), a, b_t, kz)]
  /\ kpc' = "duality"
  /\ UNCHANGED <<kshape, kx, ky, kz, gvars, tvars, svars, lvars>>

KNext == TestMatmulKernels \/ TestDuality

SpecKernel == KInit /\ [][KNext]_vars

\* The reference product: entry (i, j) of x * y summed over k terms.
RECURSIVE RefDot(_, _, _, _, _, _, _)
RefDot(k, x, y, N, O, i, j) ==
  IF k = 0 THEN 0
  ELSE RefDot(k - 1, x, y, N, O, i, j) + At(x, N, i, k - 1) * At(y, O, k - 1, j)

\* x * y, for x: M x N and y: N x O.
RefProd(x, y, M, N, O) ==
  [q \in 0..(M * O - 1) |-> RefDot(N, x, y, N, O, q \div O, q % O)]

\* C8 (as stated): after matmat_mul_into(x, y, out), whatever out held before,
\* out is exactly x * y, and the xt and yt kernels on the transposed operand
\* give that same result.
C8_Original ==
  kpc = "kernels" =>
    /\ kres.plain = RefProd(kx, ky, kshape[1], kshape[2], kshape[3])
    /\ kres.xt = kres.plain
    /\ kres.yt = kres.plain

\* C8 (amended): matmat_mul_into(x, y, out) accumulates: afterwards out is its
\* prior content plus x * y (so exactly x * y when out was all zero, as in
\* every forward call), and matmat_mul_into_xt on transpose(x) and
\* matmat_mul_into_yt on transpose(y) give that same result.
C8_KernelsAccumulate ==
  kpc = "kernels" =>
    /\ kres.plain = AddArr(kz, RefProd(kx, ky, kshape[1], kshape[2], kshape[3]))
    /\ (kz = Zeros(kshape[1] * kshape[3]) =>
          kres.plain = RefProd(kx, ky, kshape[1], kshape[2], kshape[3]))
    /\ kres.xt = kres.plain
    /\ kres.yt = kres.plain

\* A 2 x 2 by 2 x 2 product was accumulated into a non-zero out.
C8_Witness ==
  /\ kpc = "kernels"
  /\ kshape = <<2, 2, 2>>
  /\ kz # Zeros(4)
  /\ kx[1] # kx[2]
  /\ ky[1] # ky[2]
  /\ kres.plain # kz

\* C7: matmul(A, B) and matmul_transpose(A, transpose(B)) have the same forward
\* value, and under the same downstream gradient their backward operations
\* leave the same gradient for A and the same gradient for B (the slot of
\* transpose(B) holding the transpose of the gradient of B).
C7_MatmulTransposeDuality ==
  kpc = "duality" =>
    /\ ~kres.mm.panic /\ ~kres.mt.panic
    /\ kres.mm.fwd = kres.mt.fwd
    /\ kres.mm.ga = kres.mt.ga
    /\ kres.mm.gb = Transpose(kres.mt.gb, kshape[3], kshape[2])

\* Both passes ran on asymmetric 2 x 2 operands with a non-zero, non-uniform
\* downstream gradient.
C7_Witness ==
  /\ kpc = "duality"
  /\ kshape = <<2, 2, 2>>
  /\ ky[1] # ky[2]
  /\ kx[1] # kx[2]
  /\ kz[0] # kz[3]
  /\ kres.mm.gb # Zeros(4)
  /\ kres.mm.gb # Transpose(kres.mm.gb, 2, 2)

(***************************************************************************)
(* The gradient store on its own: any sequence of its four operations on   *)
(* two identities,   with writes through the mutable views.  glast records *)
(* the last call (the store before it, what it returned) and the call      *)
(* before that; dirty is the set of identities written since they were     *)
(* last absent.                                                            *)
(***************************************************************************)
GIds == {1, 2}

\* The number of elements of the tensor with identity id.
GLen(id) == IF id = 2 THEN 2 ELSE 1

WVals == {0, 5}

GInit ==
  /\ gpc = "run"
  /\ gstore = {}
  /\ glast = NoCall
  /\ KOff /\ TOff /\ SOff /\ LOff

Prev == [op |-> glast.op, id |-> glast.id, ret |-> glast.ret]

\* get_or_zero(id)
GRef(id) ==
  LET r == ref_gradient(gstore, id, GLen(id))
  IN  /\ gpc = "run"
      /\ gstore' = r.store
      /\ glast' = [op |-> "ref", id |-> id, id2 |-> 0, before |-> gstore,
                   alloc |-> r.store, ret |-> Some(r.ret), panic |-> FALSE,
                   dirty |-> glast.dirty, prev |-> Prev]
      /\ UNCHANGED <<gpc, kvars, tvars, svars, lvars>>

\* mut(id), the view left as it is
GMut(id) ==
  LET r == mut_gradient(gstore, id, GLen(id))
  IN  /\ gpc = "run"
      /\ gstore' = r.store
      /\ glast' = [op |-> "mut", id |-> id, id2 |-> 0, before |-> gstore,
                   alloc |-> r.store, ret |-> Some(r.ret), panic |-> FALSE,
                   dirty |-> glast.dirty, prev |-> Prev]
      /\ UNCHANGED <<gpc, kvars, tvars, svars, lvars>>

\* mut(id), then w written through the view
GMutWrite(id, w) ==
  LET r == mut_gradient(gstore, id, GLen(id))
  IN  /\ gpc = "run"
      /\ gstore' = Write(r.store, id, w)
      /\ glast' = [op |-> "write", id |-> id, id2 |-> 0, before |-> gstore,
                   alloc |-> r.store, ret |-> Some(r.ret), panic |-> FALSE,
                   dirty |-> glast.dirty \cup {id}, prev |-> Prev]
      /\ UNCHANGED <<gpc, kvars, tvars, svars, lvars>>

\* remove(id)
GRemove(id) ==
  LET r == remove(gstore, id)
  IN  /\ gpc = "run"
      /\ gstore' = r.store
      /\ glast' = [op |-> "remove", id |-> id, id2 |-> 0, before |-> gstore,
                   alloc |-> r.store, ret |-> r.ret, panic |-> FALSE,
                   dirty |-> glast.dirty \ {id}, prev |-> Prev]
      /\ UNCHANGED <<gpc, kvars, tvars, svars, lvars>>

\* get_mut_and_ref(a, b); on success w is written through the mutable view
GMutAndRef(a, b, w) ==
  LET r == mut_and_ref(gstore, a, GLen(a), b, GLen(b))
  IN  /\ gpc = "run"
      /\ gstore' = IF r.panic THEN r.store ELSE Write(r.store, a, w)
      /\ glast' = [op |-> "mut_and_ref", id |-> a, id2 |-> b, before |-> gstore,
                   alloc |-> r.store,
                   ret |-> IF r.panic THEN None ELSE Some(<<r.m, r.r>>),
                   panic |-> r.panic,
                   dirty |-> IF r.panic THEN glast.dirty ELSE glast.dirty \cup {a},
                   prev |-> Prev]
      /\ UNCHANGED <<gpc, kvars, tvars, svars, lvars>>

GNext ==
  \/ \E id \in GIds : GRef(id)
  \/ \E id \in GIds : GMut(id)
  \/ \E id \in GIds : \E w \in Arr(WVals, GLen(id)) : GMutWrite(id, w)
  \/ \E id \in GIds : GRemove(id)
  \/ \E a \in GIds, b \in GIds : \E w \in Arr(WVals, GLen(a)) : GMutAndRef(a, b, w)

SpecStore == GInit /\ [][GNext]_vars

\* The entries of G other than those of the identities in ids.
Others(G, ids) == {e \in G : e.id \notin ids}

\* The number of entries G holds for id.
Count(G, id) == Cardinality({e \in G : e.id = id})

\* C4: entry lifecycle.  A get_or_zero or mut of an absent identity allocates
\* exactly one all-zero buffer; get_or_zero of an identity not written since
\* it was last absent returns all zeros; remove returns the current buffer and
\* deletes the entry (absent when there was none), so a remove right after a
\* remove of the same identity returns absent and a get_or_zero right after it
\* returns zeros; the store never holds two buffers for one identity.
C4_EntryLifecycle ==
  /\ \A id \in GIds : Count(gstore, id) <= 1
  /\ glast.op \in {"ref", "mut", "write"} =>
       /\ Count(glast.alloc, glast.id) = 1
       /\ Others(glast.alloc, {glast.id}) = Others(glast.before, {glast.id})
       /\ glast.ret = Some(Buf(glast.alloc, glast.id))
       /\ ~Has(glast.before, glast.id) => glast.ret = Some(Zeros(GLen(glast.id)))
       /\ Has(glast.before, glast.id) => glast.alloc = glast.before
  /\ (glast.op = "ref" /\ glast.id \notin glast.dirty) =>
       glast.ret = Some(Zeros(GLen(glast.id)))
  /\ glast.op = "remove" =>
       /\ ~Has(gstore, glast.id)
       /\ Others(gstore, {glast.id}) = Others(glast.before, {glast.id})
       /\ Has(glast.before, glast.id) => glast.ret = Some(Buf(glast.before, glast.id))
       /\ ~Has(glast.before, glast.id) => glast.ret = None
  /\ (glast.prev.op = "remove" /\ glast.prev.id = glast.id) =>
       /\ glast.op = "remove" => glast.ret = None
       /\ glast.op \in {"ref", "mut"} =>
            /\ glast.ret = Some(Zeros(GLen(glast.id)))
            /\ Buf(gstore, glast.id) = Zeros(GLen(glast.id))

\* A non-zero buffer was removed and the next call, a get_or_zero of the same
\* identity, returned zeros.
C4_Witness ==
  /\ glast.op = "ref"
  /\ glast.prev.op = "remove"
  /\ glast.prev.id = glast.id
  /\ glast.prev.ret = Some([q \in 0..1 |-> 5])
  /\ glast.ret = Some(Zeros(2))
  /\ Cardinality(gstore) = 2

\* C5: get_mut_and_ref(a, b) fails exactly when a = b and then leaves the
\* store unchanged; for a # b it allocates a zero buffer for each of a and b
\* that was absent, leaves every other entry alone, and returns the buffers
\* of a and b.
C5_DualFetch ==
  glast.op = "mut_and_ref" =>
    /\ glast.panic <=> glast.id = glast.id2
    /\ glast.panic => gstore = glast.before /\ glast.alloc = glast.before
    /\ ~glast.panic =>
         /\ Others(glast.alloc, {glast.id, glast.id2})
              = Others(glast.before, {glast.id, glast.id2})
         /\ \A i \in {glast.id, glast.id2} :
              /\ Count(glast.alloc, i) = 1
              /\ Buf(glast.alloc, i) =
                   IF Has(glast.before, i) THEN Buf(glast.before, i)
                   ELSE Zeros(GLen(i))
         /\ glast.ret = Some(<<Buf(glast.alloc, glast.id), Buf(glast.alloc, glast.id2)>>)

\* A dual fetch of two distinct identities, one present and non-zero, one
\* absent, succeeded.
C5_Witness ==
  /\ glast.op = "mut_and_ref"
  /\ ~glast.panic
  /\ glast.id # glast.id2
  /\ ~Has(glast.before, glast.id)
  /\ Has(glast.before, glast.id2)
  /\ Buf(glast.before, glast.id2) # Zeros(GLen(glast.id2))

\* A dual fetch of one identity twice failed on a non-empty store.
C5_WitnessPanic ==
  /\ glast.op = "mut_and_ref"
  /\ glast.panic
  /\ glast.before # {}

(***************************************************************************)
(* The tape: a chain of traced matmul / matmul_transpose operations on a   *)
(* leaf, ended by a scalar reduction, then backward on that scalar.        *)
(***************************************************************************)
MaxOps == 2

Ramp(len) == [q \in 0..(len - 1) |-> q + 1]

Alt(len) == [q \in 0..(len - 1) |-> IF q % 2 = 0 THEN 2 ELSE -1]

MatData(len) == {Ramp(len), Alt(len)}

\* Tensor construction: a fresh unique id, no tape.
NewTensors(id) ==
  UNION {{Tensor(id, r, c, d) : d \in MatData(r * c)} : r \in Dims, c \in Dims}

\* The tensor registered under id.
TData(id) == (CHOOSE t \in tensors : t.id = id).data

TInit ==
  /\ tpc = "forward"
  /\ rank \in {1, 2}
  /\ \E a \in NewTensors(1) :
       /\ rank = 1 => a.rows = 1
       /\ tensors = {a}
       /\ cur = a            \* a.trace(): the same id and data, an empty tape
  /\ nextId = 2
  /\ tape = <<>>
  /\ side = NoSide
  /\ pending = <<>>
  /\ tgrads = {}
  /\ ran = <<>>
  /\ KOff /\ GOff /\ SOff /\ LOff

\* The untracked (NoneTape) tensors a caller can pass by reference: one
\* already constructed, or one constructed now.  The result of a traced
\* operation carries the tape and cannot be one.
RhsChoices ==
  {t \in tensors : /\ \A k \in DOMAIN tape : tape[k].result.id # t.id
                   /\ \A k \in DOMAIN side.tape : side.tape[k].result.id # t.id}
    \cup NewTensors(nextId)

\* The id the next result tensor gets when x is the operand passed with it.
ResultId(x) == IF x.id = nextId THEN nextId + 1 ELSE nextId

\* One more operation may be recorded (the chain ends with the add, when
\* there is one).
Room == side.st # "merged" /\ Len(tape) + Len(side.tape) < MaxOps

\* The leaves a second traced tensor is made from: a new tensor.
SideLeaves == {t \in NewTensors(nextId) : t.data = Ramp(Numel(t))}

\* The right operands given to the second tensor's operations.
SideRhsChoices == {t \in RhsChoices : t.id # nextId \/ t.data = Ramp(Numel(t))}

\* The traced tensor at the end of the chain becomes f.result, owning f.tape.
Chain(f, x) ==
  /\ cur' = f.result
  /\ tape' = f.tape
  /\ tensors' = tensors \cup {x, f.result}
  /\ nextId' = f.result.id + 1
  /\ UNCHANGED <<tpc, rank, side, pending, tgrads, ran, kvars, gvars, svars, lvars>>

\* cur = matmul(cur, &rhs)
TMatmul(rhs) ==
  /\ tpc = "forward" /\ rank = 2 /\ Room
  /\ rhs.rows = cur.cols
  /\ Chain(matmul(cur, tape, rhs, ResultId(rhs)), rhs)

\* cur = matmul_transpose(cur, &rhs_t)
TMatmulTranspose(rhs_t) ==
  /\ tpc = "forward" /\ rank = 2 /\ Room
  /\ rhs_t.cols = cur.cols
  /\ Chain(matmul_transpose(cur, tape, rhs_t, ResultId(rhs_t)), rhs_t)

\* cur = vecmat_mul(cur, &rhs)
TVecmatMul(rhs) ==
  /\ tpc = "forward" /\ rank = 1 /\ Room
  /\ rhs.rows = cur.cols
  /\ Chain(vecmat_mul(cur, tape, rhs, ResultId(rhs)), rhs)

\* cur = vecmat_mul_transpose(cur, &rhs_t)
TVecmatMulTranspose(rhs_t) ==
  /\ tpc = "forward" /\ rank = 1 /\ Room
  /\ rhs_t.cols = cur.cols
  /\ Chain(vecmat_mul_transpose(cur, tape, rhs_t, ResultId(rhs_t)), rhs_t)

\* side = b.trace(): a second traced tensor, of the type of the chain's
\* leaf, with an empty tape of its own.  The programs modelled trace it and
\* compute on it before the chain records anything.
TTraceSide(b) ==
  /\ tpc = "forward"
  /\ side.st = "none"
  /\ tape = <<>>
  /\ b.rows = cur.rows /\ b.cols = cur.cols
  /\ side' = [st |-> "live", t |-> b, tape |-> <<>>]
  /\ tensors' = tensors \cup {b}
  /\ nextId' = ResultId(b)
  /\ UNCHANGED <<tpc, rank, cur, tape, pending, tgrads, ran, kvars, gvars, svars, lvars>>

\* side = matmul(side, &rhs), or vecmat_mul(side, &rhs) on a Tensor1D
TSideMul(rhs) ==
  /\ tpc = "forward" /\ side.st = "live" /\ Room
  /\ tape = <<>>
  /\ rhs.rows = side.t.cols
  /\ LET f == IF rank = 2 THEN matmul(side.t, side.tape, rhs, ResultId(rhs))
              ELSE vecmat_mul(side.t, side.tape, rhs, ResultId(rhs))
     IN  /\ side' = [st |-> "live", t |-> f.result, tape |-> f.tape]
         /\ tensors' = tensors \cup {rhs, f.result}
         /\ nextId' = f.result.id + 1
  /\ UNCHANGED <<tpc, rank, cur, tape, pending, tgrads, ran, kvars, gvars, svars, lvars>>

\* cur = add(cur, side): the binary operation on the two traced tensors
TAdd ==
  /\ tpc = "forward" /\ side.st = "live"
  /\ side.t.rows = cur.rows /\ side.t.cols = cur.cols
  /\ LET f == add(cur, tape, side.t, side.tape, nextId)
     IN  /\ cur' = f.result
         /\ tape' = f.tape
         /\ side' = [st |-> "merged", t |-> side.t, tape |-> f.donor]
         /\ tensors' = tensors \cup {f.result}
         /\ nextId' = nextId + 1
  /\ UNCHANGED <<tpc, rank, pending, tgrads, ran, kvars, gvars, svars, lvars>>

\* cur = (a scalar reduction of cur with weights w)
TReduce(w) ==
  /\ tpc = "forward"
  /\ side.st # "live"
  /\ Len(tape) >= 1
  /\ LET f == reduce(cur, tape, w, nextId)
     IN  /\ cur' = f.result
         /\ tape' = f.tape
         /\ tensors' = tensors \cup {f.result}
         /\ nextId' = nextId + 1
  /\ tpc' = "loss"
  /\ UNCHANGED <<rank, side, pending, tgrads, ran, kvars, gvars, svars, lvars>>

\* A store whose seed entry is allocated and left at zero.
backward_seed_unset(seed) == mut_gradient({}, seed.id, Numel(seed)).store

\* The store backward starts from: the seed's entry set to all ones.
backward_seed(seed) ==
  Write(mut_gradient({}, seed.id, Numel(seed)).store, seed.id, Ones(Numel(seed)))

\* Replay in recording order.
execute_pick_first(p) == 1

\* Which of the not yet run operations backward runs next: the last recorded.
execute_pick(p) == Len(p)

\* backward(cur): seed the store, take the operations off the tape
TBackward ==
  /\ tpc = "loss"
  /\ tgrads' = backward_seed(cur)
  /\ pending' = [i \in 1..Len(tape) |-> [idx |-> i, op |-> tape[i]]]
  /\ ran' = <<>>
  /\ tpc' = "backward"
  /\ UNCHANGED <<nextId, tensors, rank, cur, tape, side, kvars, gvars, svars, lvars>>

\* backward, one iteration: run the next operation against the store
TStep ==
  /\ tpc = "backward"
  /\ pending # <<>>
  /\ LET i == execute_pick(pending)
         e == pending[i]
         r == RunOp(e.op, tgrads)
     IN  /\ tgrads' = r.store
         /\ pending' = [k \in 1..(Len(pending) - 1) |->
                          IF k < i THEN pending[k] ELSE pending[k + 1]]
         /\ ran' = Append(ran, [idx |-> e.idx, before |-> tgrads, after |-> r.store,
                                fetches |-> r.fetches])
         /\ tpc' = IF r.panic THEN "panic" ELSE "backward"
  /\ UNCHANGED <<nextId, tensors, rank, cur, tape, side, kvars, gvars, svars, lvars>>

\* backward returns the store
TFinish ==
  /\ tpc = "backward"
  /\ pending = <<>>
  /\ tpc' = "done"
  /\ UNCHANGED <<nextId, tensors, rank, cur, tape, side, pending, tgrads, ran,
                 kvars, gvars, svars, lvars>>

TNext ==
  \/ \E rhs \in RhsChoices : TMatmul(rhs)
  \/ \E rhs_t \in RhsChoices : TMatmulTranspose(rhs_t)
  \/ \E rhs \in RhsChoices : TVecmatMul(rhs)
  \/ \E rhs_t \in RhsChoices : TVecmatMulTranspose(rhs_t)
  \/ \E b \in SideLeaves : TTraceSide(b)
  \/ \E rhs \in SideRhsChoices : TSideMul(rhs)
  \/ TAdd
  \/ \E w \in MatData(Numel(cur)) : TReduce(w)
  \/ TBackward
  \/ TStep
  \/ TFinish

SpecTape == TInit /\ [][TNext]_vars

\* The gradient slot of tensor t in G, read as zeros while it is absent.
Slot(G, t) == IF Has(G, t.id) THEN Buf(G, t.id) ELSE Zeros(Numel(t))

\* C1: backward runs each of the N recorded operations exactly once, the last
\* recorded first, each against the store the previous one left (the first
\* against the seeded store); so when operation k runs, every operation
\* recorded after k has run, and the gradient slot of k's output is there.
C1_ReverseReplay ==
  tpc \in {"backward", "panic", "done"} =>
    /\ Len(ran) + Len(pending) = Len(tape)
    /\ \A k \in DOMAIN pending : pending[k].idx = k /\ pending[k].op = tape[k]
    /\ \A k \in DOMAIN ran : ran[k].idx = Len(tape) - k + 1
    /\ tpc = "done" => Len(ran) = Len(tape)
    /\ \A k \in DOMAIN ran :
         ran[k].before = IF k = 1 THEN backward_seed(cur) ELSE ran[k - 1].after
    /\ ran # <<>> => tgrads = ran[Len(ran)].after
    /\ \A k \in DOMAIN ran :
         /\ Has(ran[k].before, tape[ran[k].idx].result.id)
         /\ \A j \in DOMAIN tape :
              j > ran[k].idx => \E k2 \in 1..(k - 1) : ran[k2].idx = j

\* backward returned after replaying a chain of two matmuls and the reduction.
C1_Witness ==
  /\ tpc = "done"
  /\ Len(tape) = 3
  /\ Len(ran) = 3
  /\ tape[1].kind = "matmul"
  /\ tape[2].kind = "matmul_transpose"

\* C6: the backward operation of matmul(lhs, rhs), run on a store holding G
\* for the result, adds G * transpose(rhs) to what lhs's slot held and
\* transpose(lhs) * G to what rhs's slot held (an absent slot counting as
\* zeros; both sums landing in the one slot when lhs and rhs are the same
\* tensor), with lhs and rhs the forward-time values, and changes no other
\* slot, the result's included.
C6_MatmulBackward ==
  \A k \in DOMAIN ran :
    LET op == tape[ran[k].idx]
        B == ran[k].before
        A == ran[k].after
        M == op.lhs.rows
        N == op.lhs.cols
        O == op.rhs.cols
        G == Buf(B, op.result.id)
        dl == RefProd(G, Transpose(TData(op.rhs.id), N, O), M, O, N)
        dr == RefProd(Transpose(TData(op.lhs.id), M, N), G, N, M, O)
    IN  op.kind = "matmul" =>
          /\ Has(B, op.result.id)
          /\ \A id \in {op.lhs.id, op.rhs.id, op.result.id} : Count(A, id) = 1
          /\ Buf(A, op.result.id) = G
          /\ Others(A, {op.lhs.id, op.rhs.id}) = Others(B, {op.lhs.id, op.rhs.id})
          /\ IF op.lhs.id = op.rhs.id
             THEN Buf(A, op.lhs.id) = AddArr(AddArr(Slot(B, op.lhs), dl), dr)
             ELSE /\ Buf(A, op.lhs.id) = AddArr(Slot(B, op.lhs), dl)
                  /\ Buf(A, op.rhs.id) = AddArr(Slot(B, op.rhs), dr)

\* C14: backward starts from a store whose one entry is the seed's, all ones;
\* the first operation it runs is the last recorded, the one that produced
\* the seed, and it reads a gradient of exactly 1 for it (a reduction with
\* weights w leaves exactly w in its input's slot); the store is returned
\* only when every recorded operation has run, and is the store the last of
\* them left.  So after r = matmul_transpose(a, b) and a weighted sum of r,
\* as in tests::test_matmul_transpose, the gradient returned for a is w * b.
C14_BackwardSeed ==
  LET seeded == {[id |-> cur.id, buf |-> Ones(Numel(cur))]}
  IN  /\ tpc \in {"forward", "loss"} => tgrads = {} /\ ran = <<>>
      /\ (tpc = "backward" /\ ran = <<>>) => tgrads = seeded /\ Len(pending) = Len(tape)
      /\ ran # <<>> =>
           LET op == tape[ran[1].idx]
           IN  /\ ran[1].idx = Len(tape)
               /\ op.result.id = cur.id
               /\ ran[1].before = seeded
               /\ ran[1].fetches = <<<<op.lhs.id, cur.id>>>>
               /\ Buf(ran[1].after, cur.id) = Ones(Numel(cur))
               /\ Buf(ran[1].after, op.lhs.id) = op.w
      /\ tpc = "done" =>
           /\ pending = <<>>
           /\ Len(ran) = Len(tape)
           /\ tgrads = ran[Len(ran)].after
           /\ \A k \in DOMAIN tape : \E j \in DOMAIN ran : ran[j].idx = k
           /\ (Len(tape) = 2 /\ tape[1].kind \in {"matmul_transpose", "vecmat_mul_transpose"}
                /\ tape[1].lhs.id # tape[1].rhs.id) =>
                Buf(tgrads, tape[1].lhs.id) =
                  RefProd(tape[2].w, tape[1].rhs_data, tape[1].lhs.rows,
                          tape[1].rhs.rows, tape[1].lhs.cols)

\* backward returned the store for r = matmul_transpose(a, b) reduced to a
\* scalar, a being 2 x 2 and the weights not uniform.
C14_Witness ==
  /\ tpc = "done"
  /\ Len(tape) = 2
  /\ tape[1].kind = "matmul_transpose"
  /\ tape[1].lhs.rows = 2 /\ tape[1].lhs.cols = 2 /\ tape[1].rhs.rows = 2
  /\ tape[1].lhs.id # tape[1].rhs.id
  /\ tape[2].w = Ramp(4)
  /\ Buf(tgrads, cur.id) = Ones(1)
  /\ Buf(tgrads, tape[1].lhs.id) # Zeros(4)

\* The operations of matmul.rs.
MatmulKinds == {"matmul", "matmul_transpose", "vecmat_mul", "vecmat_mul_transpose"}

\* C17: the backward operation of every matmul, matmul_transpose, vecmat_mul
\* and vecmat_mul_transpose makes exactly two dual fetches, (lhs mutable,
\* result read-only) and then (rhs mutable, result read-only); the result's
\* identity differs from lhs's and from rhs's on every tape, lhs and rhs
\* being the same tensor or not, so no dual fetch fails in any backward pass.
C17_DualFetchDistinct ==
  /\ tpc # "panic"
  /\ \A t \in {tape, side.tape} : \A k \in DOMAIN t :
       t[k].kind \in MatmulKinds =>
         t[k].result.id # t[k].lhs.id /\ t[k].result.id # t[k].rhs.id
  /\ \A k \in DOMAIN ran :
       LET op == tape[ran[k].idx]
       IN  op.kind \in MatmulKinds =>
             /\ ran[k].fetches = <<<<op.lhs.id, op.result.id>>, <<op.rhs.id, op.result.id>>>>
             /\ \A j \in DOMAIN ran[k].fetches :
                  ran[k].fetches[j][1] # ran[k].fetches[j][2]

\* The backward operation of a matmul whose lhs and rhs are one tensor ran,
\* after that of a matmul_transpose recorded later.
C17_Witness ==
  /\ tpc = "done"
  /\ Len(ran) = 3
  /\ tape[1].kind = "matmul"
  /\ tape[1].lhs.id = tape[1].rhs.id
  /\ tape[2].kind = "matmul_transpose"
  /\ ran[3].fetches = <<<<1, tape[1].result.id>>, <<1, tape[1].result.id>>>>

\* The backward operations of a vecmat_mul_transpose and a vecmat_mul ran.
C17_WitnessVec ==
  /\ tpc = "done"
  /\ rank = 1
  /\ Len(ran) = 3
  /\ tape[1].kind = "vecmat_mul"
  /\ tape[2].kind = "vecmat_mul_transpose"
  /\ tape[1].rhs.id = tape[2].rhs.id
  /\ Len(ran[2].fetches) = 2

\* The last operation on a tape.
Last(t) == t[Len(t)]

\* t2 is t1 with exactly one operation appended, which is on no tape before.
Extends(t1, t2) ==
  /\ Len(t2) = Len(t1) + 1
  /\ SubSeq(t2, 1, Len(t1)) = t1
  /\ \A k \in DOMAIN tape : tape[k] # Last(t2)
  /\ \A k \in DOMAIN side.tape : side.tape[k] # Last(t2)

\* C13: recording is append-only and order-preserving.  A forward operation
\* on a traced tensor and an untracked operand (matmul, matmul_transpose,
\* vecmat_mul, vecmat_mul_transpose, the reduction) leaves the result with the
\* operand's tape plus exactly one new operation at the end, and touches no
\* other tape; the binary operation on two traced tensors leaves the result
\* with the left operand's operations in their order, then the right
\* operand's in theirs, then exactly one new operation, and leaves the right
\* operand's tape empty; no operation is ever on two tapes.
C13_TapeAppendOnly ==
  [][tpc = "forward" =>
       /\ (side' = side /\ cur' # cur) =>
            /\ Extends(tape, tape')
            /\ Last(tape').lhs.id = cur.id
            /\ Last(tape').result.id = cur'.id
       /\ (side.st = "live" /\ side'.st = "live" /\ side' # side) =>
            /\ tape' = tape /\ cur' = cur
            /\ Extends(side.tape, side'.tape)
            /\ Last(side'.tape).lhs.id = side.t.id
            /\ Last(side'.tape).result.id = side'.t.id
       /\ (side.st = "none" /\ side'.st = "live") =>
            /\ tape' = tape /\ cur' = cur /\ side'.tape = <<>>
       /\ (side.st = "live" /\ side'.st = "merged") =>
            /\ Extends(tape \o side.tape, tape')
            /\ Last(tape').kind = "add"
            /\ Last(tape').lhs.id = cur.id
            /\ Last(tape').rhs.id = side.t.id
            /\ Last(tape').result.id = cur'.id
            /\ side'.tape = <<>>
       /\ \A k \in DOMAIN tape', j \in DOMAIN side'.tape : tape'[k] # side'.tape[j]
       /\ \A k, j \in DOMAIN tape' : k # j => tape'[k] # tape'[j]
    ]_vars

\* Two traced tensors, each the result of a matmul, were added: the result's
\* tape is the left one's matmul, the right one's matmul, the add.
C13_Witness ==
  /\ side.st = "merged"
  /\ side.tape = <<>>
  /\ Len(tape) = 3
  /\ tape[1].kind = "matmul" /\ tape[1].lhs.id = 1
  /\ tape[2].kind = "matmul" /\ tape[2].lhs.id = 2
  /\ tape[2].result.id = side.t.id
  /\ tape[3].kind = "add"
  /\ tape[3].lhs.id = tape[1].result.id
  /\ tape[3].rhs.id = tape[2].result.id

\* A matmul's backward operation ran while its right operand's slot already
\* held a non-zero gradient (the operand was used twice in the chain).
C6_Witness ==
  \E k \in DOMAIN ran :
    LET op == tape[ran[k].idx]
    IN  /\ op.kind = "matmul"
        /\ op.lhs.id # op.rhs.id
        /\ op.rhs.rows = 2
        /\ Has(ran[k].before, op.rhs.id)
        /\ Buf(ran[k].before, op.rhs.id) # Zeros(Numel(op.rhs))
        /\ Buf(ran[k].after, op.rhs.id) # Buf(ran[k].before, op.rhs.id)
        /\ Buf(ran[k].after, op.lhs.id) # Zeros(Numel(op.lhs))

\* A matmul whose two operands are the same tensor had its backward run.
C6_WitnessAlias ==
  \E k \in DOMAIN ran :
    LET op == tape[ran[k].idx]
    IN  op.kind = "matmul" /\ op.lhs.id = op.rhs.id /\ op.lhs.rows = 2

(***************************************************************************)
(* Sgd (src/optim/sgd.rs).  A momentum coefficient u is the rational       *)
(* num / den; the gradients supplied are multiples of 8, so that every     *)
(* product by u = 1/2 over the calls of a run is exact, as it is in f32.   *)
(***************************************************************************)
MaxSteps == 2

MulU(u, x) == (u.num * x) \div u.den

NoMomentum == [kind |-> "None", num |-> 0, den |-> 1]

Classic(n, d) == [kind |-> "Classic", num |-> n, den |-> d]

Nesterov(n, d) == [kind |-> "Nesterov", num |-> n, den |-> d]

\* The update without the learning rate.
plain_unscaled(lr, g) == [g |-> g]

\* sgd.rs 164: *g *= lr
plain(lr, g) == [g |-> [q \in DOMAIN g |-> g[q] * lr]]

\* Classic momentum with the update taken from the raw gradient.
classic_raw_gradient(u, lr, g, v) ==
  [v |-> [q \in DOMAIN g |-> g[q] + MulU(u, v[q])],
   g |-> [q \in DOMAIN g |-> g[q] * lr]]

\* sgd.rs 152-155: *v = *g + u * *v; *g = *v * lr
classic(u, lr, g, v) ==
  LET v1 == [q \in DOMAIN g |-> g[q] + MulU(u, v[q])]
  IN  [v |-> v1, g |-> [q \in DOMAIN g |-> v1[q] * lr]]

\* Nesterov momentum looking ahead with the velocity of the previous call.
nesterov_old_velocity(u, lr, g, v) ==
  [v |-> [q \in DOMAIN g |-> g[q] + MulU(u, v[q])],
   g |-> [q \in DOMAIN g |-> (g[q] + MulU(u, v[q])) * lr]]

\* sgd.rs 159-162: *v = *g + u * *v; *g = (*g + u * *v) * lr
nesterov(u, lr, g, v) ==
  LET v1 == [q \in DOMAIN g |-> g[q] + MulU(u, v[q])]
  IN  [v |-> v1, g |-> [q \in DOMAIN g |-> (g[q] + MulU(u, v1[q])) * lr]]

\* A missing gradient taken as all zeros.
Sgd_gradient_or_zero(opt, p) ==
  [opt |-> [opt EXCEPT !.gradients = remove(opt.gradients, p.id).store],
   ret |-> Some(Zeros(Numel(p)))]

\* Weight decay as L2 regularization: wd * p joins the gradient before the
\* momentum step.
Sgd_gradient_decay_first(opt, p) ==
  LET r == remove(opt.gradients, p.id)
      mom == opt.cfg.momentum
      vr == mut_gradient(opt.velocity, p.id, Numel(p))
      g0 == IF opt.cfg.weight_decay.some
            THEN [q \in DOMAIN r.ret.val |->
                    r.ret.val[q] + opt.cfg.weight_decay.val * p.data[q]]
            ELSE r.ret.val
      step == CASE mom.kind = "Classic" -> classic(mom, opt.cfg.lr, g0, vr.ret)
                [] mom.kind = "Nesterov" -> nesterov(mom, opt.cfg.lr, g0, vr.ret)
                [] mom.kind = "None" -> [g |-> [q \in DOMAIN g0 |-> g0[q] * opt.cfg.lr]]
  IN  IF ~r.ret.some
      THEN [opt |-> [opt EXCEPT !.gradients = r.store], ret |-> None]
      ELSE [opt |-> [opt EXCEPT !.gradients = r.store,
                                !.velocity = IF mom.kind = "None" THEN @
                                             ELSE Write(vr.store, p.id, step.v)],
            ret |-> Some(step.g)]

\* GradientProvider::gradient for Sgd: the update for parameter p, if the
\* working store holds a gradient for it.
Sgd_gradient(opt, p) ==
  LET r == remove(opt.gradients, p.id)
      mom == opt.cfg.momentum
      vr == mut_gradient(opt.velocity, p.id, Numel(p))
      step == CASE mom.kind = "Classic" -> classic(mom, opt.cfg.lr, r.ret.val, vr.ret)
                [] mom.kind = "Nesterov" -> nesterov(mom, opt.cfg.lr, r.ret.val, vr.ret)
                [] mom.kind = "None" -> plain(opt.cfg.lr, r.ret.val)
      g_t == IF opt.cfg.weight_decay.some
             THEN [q \in DOMAIN step.g |->
                     step.g[q] + opt.cfg.weight_decay.val * p.data[q]]
             ELSE step.g
  IN  IF ~r.ret.some
      THEN [opt |-> [opt EXCEPT !.gradients = r.store], ret |-> None]
      ELSE [opt |-> [opt EXCEPT !.gradients = r.store,
                                !.velocity = IF mom.kind = "None" THEN @
                                             ELSE Write(vr.store, p.id, step.v)],
            ret |-> Some(g_t)]

\* The precision of f32: 24 significant bits.
Mantissa == 16777216

Abs(x) == IF x < 0 THEN -x ELSE x

Sign(x) == IF x < 0 THEN -1 ELSE IF x > 0 THEN 1 ELSE 0

\* The spacing of the f32 values around a >= 0.
RECURSIVE Ulp(_)
Ulp(a) == IF a < Mantissa THEN 1 ELSE 2 * Ulp(a \div 2)

\* Rounding toward zero.
f32_truncate(x) == Sign(x) * (Abs(x) \div Ulp(Abs(x))) * Ulp(Abs(x))

\* The f32 nearest to x, ties to even: what an f32 operation whose exact
\* result is x returns.  It is x itself on every integer below 2^24.
f32(x) ==
  LET a == Abs(x)
      u == Ulp(a)
      m == a \div u
      r == a % u
      up == 2 * r > u \/ (2 * r = u /\ m % 2 = 1)
  IN  Sign(x) * (IF up THEN m + 1 ELSE m) * u

\* CanUpdateWithGradients for a tensor: subtract the provided update, or
\* report the tensor as unused.
\* sgd.rs update of one tensor, r being what gradient() returned for it: the
\* update is subtracted elementwise, in f32.
Tensor_apply(p, r, unused) ==
  IF r.ret.some
  THEN [p |-> [p EXCEPT !.data = [q \in DOMAIN p.data |->
                                    f32(p.data[q] - r.ret.val[q])]],
        opt |-> r.opt, unused |-> unused]
  ELSE [p |-> p, opt |-> r.opt, unused |-> Append(unused, p.id)]

Tensor_update(p, opt, unused) == Tensor_apply(p, Sgd_gradient(opt, p), unused)

\* CanUpdateWithGradients for a tuple of parameters: each in turn, from i on.
RECURSIVE Module_update(_, _, _, _)
\* The parameters after the i-th, r being the outcome for the i-th.
Module_rest(module, i, r) ==
  Module_update([module EXCEPT ![i] = r.p], i + 1, r.opt, r.unused)

Module_update(module, i, opt, unused) ==
  IF i > Len(module) THEN [module |-> module, opt |-> opt, unused |-> unused]
  ELSE Module_rest(module, i, Tensor_update(module[i], opt, unused))

\* UnusedTensors into Result<(), UnusedParamsError>
UnusedInto(unused) ==
  IF unused = <<>> THEN [ok |-> TRUE, unused |-> <<>>]
  ELSE [ok |-> FALSE, unused |-> unused]

\* update that adds the supplied store to the working store it still holds.
Sgd_update_merge(opt, module, grads) ==
  LET kept == {e \in opt.gradients : ~Has(grads, e.id)}
      r == Module_update(module, 1, [opt EXCEPT !.gradients = kept \cup grads], <<>>)
  IN  [opt |-> r.opt, module |-> r.module, ret |-> UnusedInto(r.unused)]

\* update that restores the module when a parameter was unused.
Sgd_update_rollback(opt, module, grads) ==
  LET r == Module_update(module, 1, [opt EXCEPT !.gradients = grads], <<>>)
  IN  [opt |-> r.opt,
       module |-> IF r.unused = <<>> THEN r.module ELSE module,
       ret |-> UnusedInto(r.unused)]

\* Optimizer::update for Sgd
\* What update returns, r being the outcome of the walk over the parameters.
Sgd_ret(r) == [opt |-> r.opt, module |-> r.module, ret |-> UnusedInto(r.unused)]

Sgd_update(opt, module, grads) ==
  Sgd_ret(Module_update(module, 1, [opt EXCEPT !.gradients = grads], <<>>))

\* The hyperparameters tried.
Configs ==
  [lr : {1, 2},
   momentum : {NoMomentum, Classic(1, 2), Nesterov(1, 2)},
   weight_decay : {None, Some(1)}]

\* The model: a tuple of two parameter tensors (a weight and a bias).
Model0 == <<Tensor(1, 1, 2, [q \in 0..1 |-> 16 * (q + 1)]),
            Tensor(2, 1, 1, [q \in 0..0 |-> -16])>>

\* Gradients a backward pass can leave for a tensor of len elements.
SgdGrads(len) == {[q \in 0..(len - 1) |-> 8 * (q + 1)], [q \in 0..(len - 1) |-> -8]}

\* A second instance of the same model type: tensors with ids of their own.
Model1 == <<Tensor(3, 1, 2, [q \in 0..1 |-> 24]),
            Tensor(4, 1, 1, [q \in 0..0 |-> 8])>>

\* The stores a backward pass can hand to update: a gradient or none for each
\* parameter of the model, and possibly one for a tensor (id 3) that is no
\* parameter of it (it is the weight of the second instance).
GradStores ==
  {g1 \cup g2 \cup g3 :
     g1 \in {{}} \cup {{[id |-> 1, buf |-> b]} : b \in SgdGrads(2)},
     g2 \in {{}} \cup {{[id |-> 2, buf |-> b]} : b \in SgdGrads(1)},
     g3 \in {{}, {[id |-> 3, buf |-> [q \in 0..1 |-> 8]]}}}

(***************************************************************************)
(* tests::test_perfect_sgd.  The values of this run are counted in units   *)
(* of 2^-26, the spacing of the f32 values around 0.2, so that 1.0 is One  *)
(* and the sums the run takes round as they do in f32.                     *)
(***************************************************************************)
One == 67108864

PerfectSteps == 5

PerfectCfg == [lr |-> 1, momentum |-> NoMomentum, weight_decay |-> None]

\* pred: Tensor1D<5> = zeros(), targ: Tensor1D<5> = ones()
Pred0 == Tensor(1, 1, 5, Zeros(5))

Targ == Tensor(2, 1, 5, [q \in 0..4 |-> One])

\* 1.0 / n in f32, for an n whose quotient lies in [1/8, 1/4).
mean_backward(n) == f32((2 * One + n) \div (2 * n))

\* backward((pred.trace() - &targ).abs().mean()): the store it returns holds
\* sign(pred - targ) / 5 for pred and the seed's ones for the loss, the third
\* tensor the iteration constructs.
PerfectGradients(pred, k) ==
  {[id |-> pred.id,
    buf |-> [q \in DOMAIN pred.data |->
               Sign(f32(pred.data[q] - Targ.data[q])) * mean_backward(Numel(pred))]],
   [id |-> Targ.id + 3 * (k + 1), buf |-> [q \in 0..0 |-> One]]}

SInit ==
  /\ \/ /\ spc = "run"
        /\ cfg \in Configs
        /\ params = Model0
        /\ other = Model1
     \/ /\ spc = "perfect"
        /\ cfg = PerfectCfg
        /\ params = <<Pred0>>
        /\ other = <<>>
  /\ velocity = {}
  /\ gradients = {}
  /\ sres = [t |-> "none"]
  /\ steps = 0
  /\ twin = [params |-> params, other |-> other, velocity |-> {}]
  /\ gsum = [i \in DOMAIN params |-> Zeros(Numel(params[i]))]
  /\ KOff /\ GOff /\ TOff /\ LOff

\* The twin after the same call: update with weight decay disabled.
TwinUpdate(which, grads) ==
  LET r == Sgd_update([cfg |-> [cfg EXCEPT !.weight_decay = None],
                       velocity |-> twin.velocity, gradients |-> {}],
                      IF which = "other" THEN twin.other ELSE twin.params, grads)
  IN  [params |-> IF which = "other" THEN twin.params ELSE r.module,
       other |-> IF which = "other" THEN r.module ELSE twin.other,
       velocity |-> r.opt.velocity]

\* sgd.update(&mut module, gradients), module being the model ("update") or
\* its second instance ("other"), and the bookkeeping on the call
Call(which, grads) ==
  /\ LET module == IF which = "other" THEN other ELSE params
         r == Sgd_update([cfg |-> cfg, velocity |-> velocity, gradients |-> gradients],
                         module, grads)
     IN  /\ params' = IF which = "other" THEN params ELSE r.module
         /\ other' = IF which = "other" THEN r.module ELSE other
         /\ velocity' = r.opt.velocity
         /\ gradients' = r.opt.gradients
         /\ sres' = [t |-> which, pre |-> module, gin |-> grads, vpre |-> velocity,
                     gpre |-> gradients, ret |-> r.ret]
  /\ steps' = steps + 1
  /\ twin' = TwinUpdate(which, grads)
  /\ gsum' = IF which = "other" THEN gsum
             ELSE [i \in DOMAIN params |->
                     IF Has(grads, params[i].id)
                     THEN AddArr(gsum[i], Buf(grads, params[i].id)) ELSE gsum[i]]
  /\ UNCHANGED <<spc, cfg, kvars, gvars, tvars, lvars>>

\* A training step on the model with whatever store backward returned.
SUpdate(grads) ==
  /\ spc = "run"
  /\ steps < MaxSteps
  /\ Call("update", grads)

\* The same optimizer given the second instance to update.
SUpdateOther(grads) ==
  /\ spc = "run"
  /\ steps < MaxSteps
  /\ Call("other", grads)

\* tests::test_perfect_sgd, one iteration of its loop
TestPerfectSgd ==
  /\ spc = "perfect"
  /\ steps < PerfectSteps
  /\ Call("update", PerfectGradients(params[1], steps))

SNext ==
  \/ \E grads \in GradStores : SUpdate(grads)
  \/ \E grads \in GradStores : SUpdateOther(grads)
  \/ TestPerfectSgd

SpecSgd == SInit /\ [][SNext]_vars

\* The indices of the parameters the last call found a gradient for / did not.
Present == {i \in DOMAIN params : Has(sres.gin, params[i].id)}

Absent == {i \in DOMAIN params : ~Has(sres.gin, params[i].id)}

\* C2: update returns the unused-parameters error exactly when some traversed
\* parameter had no entry in the supplied store, and the error then names
\* each such parameter once, in traversal order, and no other.
C2_UnusedReported ==
  sres.t = "update" =>
    /\ sres.ret.ok <=> Absent = {}
    /\ sres.ret.ok => sres.ret.unused = <<>>
    /\ {sres.ret.unused[k] : k \in DOMAIN sres.ret.unused}
         = {params[i].id : i \in Absent}
    /\ Len(sres.ret.unused) = Cardinality(Absent)
    /\ \A k, l \in DOMAIN sres.ret.unused :
         k < l => \E i, j \in Absent :
                    i < j /\ params[i].id = sres.ret.unused[k]
                          /\ params[j].id = sres.ret.unused[l]

\* update reported the first parameter unused while the second had a gradient.
C2_Witness ==
  /\ sres.t = "update"
  /\ sres.ret = [ok |-> FALSE, unused |-> <<1>>]
  /\ Has(sres.gin, 2)

\* Both parameters were unused although the store was not empty.
C2_WitnessBoth ==
  /\ sres.t = "update"
  /\ sres.ret = [ok |-> FALSE, unused |-> <<1, 2>>]
  /\ sres.gin # {}

\* The update the configured rule takes from gradient g, velocity v and
\* parameter value x (one element).
RuleUpdate(g, v, x) ==
  LET u == cfg.momentum
      v1 == g + MulU(u, v)
      base == CASE u.kind = "None" -> cfg.lr * g
                [] u.kind = "Classic" -> cfg.lr * v1
                [] u.kind = "Nesterov" -> cfg.lr * (g + MulU(u, v1))
  IN  base + (IF cfg.weight_decay.some THEN cfg.weight_decay.val * x ELSE 0)

\* C3: when update reports unused parameters, every parameter that had a
\* gradient has had its update subtracted and every parameter reported unused
\* has the value it had before the call.
C3_PartialSuccess ==
  (sres.t = "update" /\ ~sres.ret.ok) =>
    /\ \A i \in Present :
         LET p == sres.pre[i]
         IN  params[i].data =
               [q \in DOMAIN p.data |->
                  p.data[q] - RuleUpdate(Buf(sres.gin, p.id)[q],
                                         Slot(sres.vpre, p)[q], p.data[q])]
    /\ \A i \in Absent : params[i] = sres.pre[i]
    /\ \A i \in DOMAIN params : params[i].id = sres.pre[i].id

\* A call reported the bias unused and changed the weight.
C3_Witness ==
  /\ sres.t = "update"
  /\ sres.ret = [ok |-> FALSE, unused |-> <<2>>]
  /\ params[1].data # sres.pre[1].data
  /\ steps = 2

\* C9: with classic momentum u, a call that finds gradient g for a parameter
\* stores v = g + u * v_prev in the parameter's one velocity buffer (v_prev
\* being what the previous such call stored, zeros before the first) and
\* subtracts lr * v (plus the decay term when weight decay is set); the
\* velocity of a parameter without a gradient in the call is left alone.
\* With u = 1/2, no decay and the same g twice, the second call subtracts
\* lr * 1.5 * g.
C9_ClassicMomentum ==
  (sres.t = "update" /\ cfg.momentum.kind = "Classic") =>
    /\ steps = 1 => sres.vpre = {}
    /\ \A i \in DOMAIN params : Count(velocity, params[i].id) <= 1
    /\ \A i \in Present :
         LET p == sres.pre[i]
             g == Buf(sres.gin, p.id)
             v0 == Slot(sres.vpre, p)
             v == Buf(velocity, p.id)
         IN  /\ Has(velocity, p.id)
             /\ \A q \in DOMAIN g :
                  /\ cfg.momentum.den * v[q]
                       = cfg.momentum.den * g[q] + cfg.momentum.num * v0[q]
                  /\ p.data[q] - params[i].data[q]
                       = cfg.lr * v[q]
                         + (IF cfg.weight_decay.some
                            THEN cfg.weight_decay.val * p.data[q] ELSE 0)
                  /\ (steps = 2 /\ v0[q] = g[q] /\ ~cfg.weight_decay.some
                      /\ cfg.momentum.num = 1 /\ cfg.momentum.den = 2) =>
                       2 * (p.data[q] - params[i].data[q]) = 3 * cfg.lr * g[q]
    /\ \A i \in Absent :
         {e \in velocity : e.id = params[i].id}
           = {e \in sres.vpre : e.id = params[i].id}

\* The second call in a row with the same gradient for the weight, u = 1/2,
\* no decay.
C9_Witness ==
  /\ sres.t = "update"
  /\ cfg.momentum = Classic(1, 2)
  /\ ~cfg.weight_decay.some
  /\ steps = 2
  /\ Has(sres.gin, 1)
  /\ Has(sres.vpre, 1)
  /\ Buf(sres.vpre, 1) = Buf(sres.gin, 1)
  /\ Buf(velocity, 1) # Buf(sres.gin, 1)

\* C10: with nesterov momentum u, a call that finds gradient g for a
\* parameter first stores v = g + u * v_prev in the parameter's velocity
\* buffer and then subtracts lr * (g + u * v), with the updated v and the
\* unscaled g (plus the decay term when weight decay is set).
C10_NesterovMomentum ==
  (sres.t = "update" /\ cfg.momentum.kind = "Nesterov") =>
    /\ steps = 1 => sres.vpre = {}
    /\ \A i \in Present :
         LET p == sres.pre[i]
             g == Buf(sres.gin, p.id)
             v0 == Slot(sres.vpre, p)
             v == Buf(velocity, p.id)
             den == cfg.momentum.den
             num == cfg.momentum.num
         IN  /\ Has(velocity, p.id)
             /\ Count(velocity, p.id) = 1
             /\ \A q \in DOMAIN g :
                  /\ den * v[q] = den * g[q] + num * v0[q]
                  /\ den * (p.data[q] - params[i].data[q])
                       = cfg.lr * (den * g[q] + num * v[q])
                         + den * (IF cfg.weight_decay.some
                                  THEN cfg.weight_decay.val * p.data[q] ELSE 0)
    /\ \A i \in Absent :
         {e \in velocity : e.id = params[i].id}
           = {e \in sres.vpre : e.id = params[i].id}

\* A second nesterov call found a gradient where a non-zero velocity was kept.
C10_Witness ==
  /\ sres.t = "update"
  /\ cfg.momentum.kind = "Nesterov"
  /\ steps = 2
  /\ Has(sres.gin, 1)
  /\ Has(sres.vpre, 1)
  /\ Buf(sres.vpre, 1) # Zeros(2)
  /\ Buf(velocity, 1) # Buf(sres.gin, 1)

\* C11: with weight decay wd configured, a call that finds gradient g for a
\* parameter of value x subtracts the momentum-mode update (lr * g, lr * v or
\* lr * (g + u * v), v being the velocity the call stored) plus wd * x; the
\* velocity it stores is g + u * v_prev with no decay term in it, and at every
\* point the velocity buffers equal those of the twin optimizer that has
\* weight decay disabled and was given the same gradients.
C11_WeightDecay ==
  cfg.weight_decay.some =>
    /\ velocity = twin.velocity
    /\ sres.t = "update" =>
         \A i \in Present :
           LET p == sres.pre[i]
               g == Buf(sres.gin, p.id)
               v0 == Slot(sres.vpre, p)
               v == Slot(velocity, p)
               den == cfg.momentum.den
               num == cfg.momentum.num
               kind == cfg.momentum.kind
           IN  \A q \in DOMAIN g :
                 /\ kind # "None" => den * v[q] = den * g[q] + num * v0[q]
                 /\ kind = "None" => ~Has(velocity, p.id)
                 /\ den * (p.data[q] - params[i].data[q]
                            - cfg.weight_decay.val * p.data[q])
                      = cfg.lr * (CASE kind = "None" -> den * g[q]
                                    [] kind = "Classic" -> den * v[q]
                                    [] kind = "Nesterov" -> den * g[q] + num * v[q])

\* A second call under classic momentum and weight decay: the decay has moved
\* the parameters away from the twin's, and the velocities still agree.
C11_Witness ==
  /\ sres.t = "update"
  /\ cfg.weight_decay.some
  /\ cfg.momentum.kind = "Classic"
  /\ steps = 2
  /\ Has(sres.gin, 1)
  /\ Has(sres.vpre, 1)
  /\ Buf(sres.vpre, 1) # Zeros(2)
  /\ twin.params[1].data # params[1].data
  /\ twin.velocity = velocity
  /\ Buf(velocity, 1) # Buf(sres.gin, 1)

\* C12: with no momentum and no weight decay a call subtracts exactly lr * g
\* from each parameter it finds a gradient g for and leaves the others alone,
\* no velocity buffer is ever created, and after any number of calls each
\* parameter is its initial value minus lr times the sum of the gradients
\* supplied for it.  In tests::test_perfect_sgd (f32 arithmetic) the parameter
\* moves by 0.2 at the first step, is below 1 before the fifth and is exactly
\* [1, 1, 1, 1, 1] after it, the target being untouched.
C12_PlainSgd ==
  /\ (spc = "run" /\ cfg.momentum.kind = "None" /\ ~cfg.weight_decay.some) =>
       /\ velocity = {}
       /\ \A i \in DOMAIN params :
            params[i] = [Model0[i] EXCEPT !.data =
                           [q \in DOMAIN @ |-> @[q] - cfg.lr * gsum[i][q]]]
       /\ sres.t = "update" =>
            /\ sres.vpre = {}
            /\ \A i \in Present :
                 params[i].data =
                   [q \in DOMAIN sres.pre[i].data |->
                      sres.pre[i].data[q] - cfg.lr * Buf(sres.gin, params[i].id)[q]]
            /\ \A i \in Absent : params[i] = sres.pre[i]
  /\ spc = "perfect" =>
       /\ velocity = {}
       /\ sres.t = "update" => sres.ret.ok
       /\ steps = 1 => params[1].data = [q \in 0..4 |-> mean_backward(5)]
       /\ steps < PerfectSteps => \A q \in 0..4 : params[1].data[q] < One
       /\ steps = PerfectSteps => params[1].data = Targ.data

\* Two plain calls with lr = 2, each with a gradient for the weight; and the
\* fifth step of tests::test_perfect_sgd.
C12_Witness ==
  /\ spc = "run"
  /\ cfg = [lr |-> 2, momentum |-> NoMomentum, weight_decay |-> None]
  /\ steps = 2
  /\ Has(sres.gin, 1)
  /\ gsum[1] # Buf(sres.gin, 1)
  /\ gsum[1] # Zeros(2)
  /\ params[1] # sres.pre[1]

C12_WitnessPerfect ==
  /\ spc = "perfect"
  /\ steps = PerfectSteps
  /\ params[1].data = [q \in 0..4 |-> One]
  /\ gsum[1] # params[1].data

\* C16: update replaces the working store with the one supplied.  After a
\* call the working store is the supplied store less the entries of the
\* module's parameters (each consumed by its one remove), so nothing the
\* optimizer still held from an earlier call is left in it or applied: a
\* parameter without an entry in the supplied store keeps its value and is
\* reported unused even when the store held over had an entry for it, and a
\* parameter with an entry is moved by exactly one update, taken from the
\* supplied gradient.
C16_WorkingStoreReplaced ==
  sres.t \in {"update", "other"} =>
    LET module == IF sres.t = "other" THEN other ELSE params
        ids == {sres.pre[i].id : i \in DOMAIN sres.pre}
        unused == {sres.ret.unused[k] : k \in DOMAIN sres.ret.unused}
    IN  /\ gradients = Others(sres.gin, ids)
        /\ \A e \in gradients : e \in sres.gin
        /\ \A i \in DOMAIN module :
             LET p == sres.pre[i]
             IN  /\ module[i].id = p.id
                 /\ ~Has(gradients, p.id)
                 /\ ~Has(sres.gin, p.id) => module[i] = p /\ p.id \in unused
                 /\ Has(sres.gin, p.id) =>
                      /\ Count(sres.gin, p.id) = 1
                      /\ p.id \notin unused
                      /\ module[i].data =
                           [q \in DOMAIN p.data |->
                              f32(p.data[q] - RuleUpdate(Buf(sres.gin, p.id)[q],
                                                         Slot(sres.vpre, p)[q],
                                                         p.data[q]))]

\* A call on the model left the gradient of the second instance's weight in
\* the working store; the next call, on the second instance, came with a store
\* that has no entry for that weight.
C16_Witness ==
  /\ sres.t = "other"
  /\ steps = 2
  /\ Has(sres.gpre, 3)
  /\ ~Has(sres.gin, 3)
  /\ Has(sres.gin, 1)
  /\ other = Model1
  /\ gradients # {}

\* Every product by u taken so far, and the next one, is exact.
ExactArithmetic ==
  \A e \in velocity : \A q \in DOMAIN e.buf :
    (cfg.momentum.num * e.buf[q]) % cfg.momentum.den = 0

(***************************************************************************)
(* The data loader (data/data_loader.rs).  A dataset is the sequence of    *)
(* its samples; a sample is its position in the dataset, so that a batch   *)
(* tells which samples it holds.  The random generator given to shuffle is *)
(* a choice among the rearrangements of the batch.                         *)
(***************************************************************************)
\* The largest dataset enumerated, besides the documented one.
MaxSamples == 5

\* The largest batch size enumerated, besides the documented one.
MaxBatch == 3

\* The number of calls of next logged after the first that returned None.
MaxNone == 2

\* The example in the documentation of Builder::drop_last.
DocSamples == 13
DocBatch == 5

Dataset(n) == [i \in 1..n |-> i]

Datasets == {Dataset(n) : n \in (0..MaxSamples) \cup {DocSamples}}

BatchSizes == (0..MaxBatch) \cup {DocBatch}

\* Builder::new: the defaults.
Builder_new(dataset) ==
  [dataset |-> dataset, batch_size |-> 1, shuffle |-> FALSE, drop_last |-> FALSE]

Builder_shuffle(self) == [self EXCEPT !.shuffle = TRUE]

Builder_batch_size(self, batch_size) == [self EXCEPT !.batch_size = batch_size]

Builder_drop_last(self) == [self EXCEPT !.drop_last = TRUE]

\* Builder::build: the fields are copied one by one.
Builder_build(self) ==
  [dataset |-> self.dataset, batch_size |-> self.batch_size,
   drop_last |-> self.drop_last, shuffle |-> self.shuffle]

\* into_iter (by value and by reference) and iter: an iterator at the start
\* of the dataset, with the loader's settings.
into_iter(self) ==
  [dataset_iter |-> self.dataset, batch_size |-> self.batch_size,
   shuffle |-> self.shuffle, drop_last |-> self.drop_last]

NoIter == [dataset_iter |-> <<>>, batch_size |-> 0, shuffle |-> FALSE, drop_last |-> FALSE]

\* by_ref().take(k).collect(): the first k items, or all that are left, are
\* removed from the iterator.
take_one_more(dataset_iter, k) ==
  LET m == IF k + 1 < Len(dataset_iter) THEN k + 1 ELSE Len(dataset_iter)
  IN  [batch |-> SubSeq(dataset_iter, 1, m),
       rest |-> SubSeq(dataset_iter, m + 1, Len(dataset_iter))]

take(dataset_iter, k) ==
  LET m == IF k < Len(dataset_iter) THEN k ELSE Len(dataset_iter)
  IN  [batch |-> SubSeq(dataset_iter, 1, m),
       rest |-> SubSeq(dataset_iter, m + 1, Len(dataset_iter))]

\* The rearrangements a random generator can make of n places.
Rngs(n) == {f \in [1..n -> 1..n] : \A i, j \in 1..n : f[i] = f[j] => i = j}

\* SliceRandom::shuffle: the batch rearranged in place as rng decides.
shuffle(batch, rng) == [i \in 1..Len(batch) |-> batch[rng[i]]]

\* Collate::collate: the samples stacked into one batch, a row each.
collate(batch) == [rows |-> Len(batch), row |-> batch]

\* Iterator::next with the test on drop_last left returned.
next_keeps_partial(self, rng) ==
  LET t == take(self.dataset_iter, self.batch_size)
      after == [self EXCEPT !.dataset_iter = t.rest]
  IN  IF t.batch = <<>>
      THEN [self |-> after, ret |-> None]
      ELSE [self |-> after,
            ret |-> Some(collate(IF self.shuffle THEN shuffle(t.batch, rng)
                                                     ELSE t.batch))]

\* Iterator::next, of IntoIter and of Iter alike.
next(self, rng) ==
  LET t == take(self.dataset_iter, self.batch_size)
      after == [self EXCEPT !.dataset_iter = t.rest]
  IN  IF t.batch = <<>>
      THEN [self |-> after, ret |-> None]
      ELSE IF \/ Len(t.batch) = self.batch_size
              \/ (Len(t.batch) # self.batch_size /\ ~self.drop_last)
           THEN [self |-> after,
                 ret |-> Some(collate(IF self.shuffle THEN shuffle(t.batch, rng)
                                                          ELSE t.batch))]
           ELSE [self |-> after, ret |-> None]

LInit ==
  /\ lpc = "builder"
  /\ \E dataset \in Datasets : loader = Builder_new(dataset)
  /\ it = NoIter
  /\ returned = <<>>
  /\ KOff /\ GOff /\ TOff /\ SOff

LShuffle ==
  /\ lpc = "builder"
  /\ ~loader.shuffle
  /\ loader' = Builder_shuffle(loader)
  /\ UNCHANGED <<lpc, it, returned, kvars, gvars, tvars, svars>>

LBatchSize(batch_size) ==
  /\ lpc = "builder"
  /\ loader.batch_size # batch_size
  /\ loader' = Builder_batch_size(loader, batch_size)
  /\ UNCHANGED <<lpc, it, returned, kvars, gvars, tvars, svars>>

LDropLast ==
  /\ lpc = "builder"
  /\ ~loader.drop_last
  /\ loader' = Builder_drop_last(loader)
  /\ UNCHANGED <<lpc, it, returned, kvars, gvars, tvars, svars>>

LBuild ==
  /\ lpc = "builder"
  /\ lpc' = "loader"
  /\ loader' = Builder_build(loader)
  /\ UNCHANGED <<it, returned, kvars, gvars, tvars, svars>>

\* into_iter by value: the loader is moved into the iterator
LIntoIter ==
  /\ lpc = "loader"
  /\ lpc' = "moved"
  /\ it' = into_iter(loader)
  /\ returned' = <<>>
  /\ UNCHANGED <<loader, kvars, gvars, tvars, svars>>

\* iter, or into_iter by reference: the loader stays, and can be iterated again
LIter ==
  /\ lpc \in {"loader", "borrowed"}
  /\ lpc' = "borrowed"
  /\ it' = into_iter(loader)
  /\ returned' = <<>>
  /\ UNCHANGED <<loader, kvars, gvars, tvars, svars>>

\* The number of calls in a log that returned None.
Nones(log) == Cardinality({k \in DOMAIN log : ~log[k].some})

LCallNext(rng) ==
  /\ lpc \in {"moved", "borrowed"}
  /\ Nones(returned) < MaxNone
  /\ LET r == next(it, rng)
     IN  /\ it' = r.self
         /\ returned' = Append(returned, r.ret)
  /\ UNCHANGED <<lpc, loader, kvars, gvars, tvars, svars>>

LNext ==
  \/ LShuffle
  \/ \E batch_size \in BatchSizes : LBatchSize(batch_size)
  \/ LDropLast
  \/ LBuild
  \/ LIntoIter
  \/ LIter
  \/ \E rng \in Rngs(IF it.batch_size < Len(it.dataset_iter)
                     THEN it.batch_size ELSE Len(it.dataset_iter)) : LCallNext(rng)

SpecLoader == LInit /\ [][LNext]_vars

\* A call of next has an iterator to act on.
Iterating == lpc \in {"moved", "borrowed"}

\* n / b rounded up.
CeilDiv(n, b) == (n + b - 1) \div b

\* The k-th run of b consecutive samples of a dataset, cut at its end.
Chunk(dataset, b, k) ==
  SubSeq(dataset, (k - 1) * b + 1, IF k * b < Len(dataset) THEN k * b ELSE Len(dataset))

\* The samples of a sequence.
Samples(row) == {row[i] : i \in DOMAIN row}

\* The samples of the batches of a log, one batch after the other.
RECURSIVE Concat(_)
Concat(log) ==
  IF log = <<>> THEN <<>>
  ELSE (IF Head(log).some THEN Head(log).val.row ELSE <<>>) \o Concat(Tail(log))

\* C15: with drop_last set and a batch size b >= 1, over a dataset of n
\* samples the first floor(n / b) calls of next return a batch and every
\* later call returns None; each batch has exactly b samples, those of its
\* run of b consecutive samples, so that none of the trailing n mod b
\* samples is in any batch.
C15_DropLast ==
  (Iterating /\ it.drop_last /\ it.batch_size >= 1) =>
    LET n == Len(loader.dataset)
        b == it.batch_size
    IN  /\ \A k \in DOMAIN returned : returned[k].some <=> k <= n \div b
        /\ \A k \in DOMAIN returned : returned[k].some =>
              /\ returned[k].val.rows = b
              /\ Len(returned[k].val.row) = b
              /\ Samples(returned[k].val.row) = Samples(Chunk(loader.dataset, b, k))
              /\ \A i \in 1..b : returned[k].val.row[i] <= b * (n \div b)
        /\ \A x \in Samples(Concat(returned)) : x <= n - (n % b)

\* The documented example: 13 samples in batches of 5 with drop_last gave
\* two batches, the third call dropped the last 3 samples and returned None,
\* and so did the fourth.
C15_Witness ==
  /\ Iterating
  /\ it.drop_last
  /\ Len(loader.dataset) = DocSamples
  /\ it.batch_size = DocBatch
  /\ Len(returned) = 4
  /\ returned[1].some /\ returned[2].some
  /\ returned[3] = None /\ returned[4] = None
  /\ it.dataset_iter = <<>>
  /\ Samples(Concat(returned)) = 1..10

\* C18: with a batch size b >= 1 and drop_last not set, over a dataset of n
\* samples the first ceil(n / b) calls of next return a non-empty batch and
\* every later call returns None; every batch but the last has b samples and
\* the last has n - b * (ceil(n / b) - 1); without shuffle the batches, one
\* after the other, are the dataset in its order, each sample once.  With
\* shuffle set, each batch holds exactly the samples of its run of
\* consecutive samples, each once, in some order.
C18_Batches ==
  (Iterating /\ it.batch_size >= 1) =>
    LET n == Len(loader.dataset)
        b == it.batch_size
        c == CeilDiv(n, b)
    IN  /\ ~it.drop_last =>
              /\ \A k \in DOMAIN returned : returned[k].some <=> k <= c
              /\ \A k \in DOMAIN returned : returned[k].some =>
                    /\ returned[k].val.rows >= 1
                    /\ returned[k].val.rows = IF k < c THEN b ELSE n - b * (c - 1)
              /\ (\E k \in DOMAIN returned : ~returned[k].some) =>
                    /\ Len(Concat(returned)) = n
                    /\ Samples(Concat(returned)) = Samples(loader.dataset)
        /\ (~it.drop_last /\ ~it.shuffle) =>
              /\ Concat(returned) = SubSeq(loader.dataset, 1, Len(Concat(returned)))
              /\ (\E k \in DOMAIN returned : ~returned[k].some) =>
                    Concat(returned) = loader.dataset
        /\ \A k \in DOMAIN returned : returned[k].some =>
              /\ Len(returned[k].val.row) = returned[k].val.rows
              /\ Len(returned[k].val.row) = Len(Chunk(loader.dataset, b, k))
              /\ Samples(returned[k].val.row) = Samples(Chunk(loader.dataset, b, k))
              /\ ~it.shuffle => returned[k].val.row = Chunk(loader.dataset, b, k)

\* The example program: 5 samples in batches of 2, neither option set, gave
\* batches of 2, 2 and 1 samples and then None.
C18_Witness ==
  /\ Iterating
  /\ ~it.drop_last /\ ~it.shuffle
  /\ Len(loader.dataset) = 5
  /\ it.batch_size = 2
  /\ Len(returned) = 4
  /\ returned[3].some /\ returned[3].val.rows = 1
  /\ returned[4] = None
  /\ Concat(returned) = loader.dataset

\* A shuffled batch that is not in the dataset's order, and a last batch
\* that is short.
C18_WitnessShuffle ==
  /\ Iterating
  /\ it.shuffle /\ ~it.drop_last
  /\ Len(returned) = 3
  /\ returned[1].some /\ returned[2].some /\ returned[3] = None
  /\ returned[1].val.row # Chunk(loader.dataset, it.batch_size, 1)
  /\ returned[2].val.rows < it.batch_size

(***************************************************************************)
(* The whole: any one of the parts, running on its own.                    *)
(***************************************************************************)
Init == KInit \/ GInit \/ TInit \/ SInit \/ LInit

Next == KNext \/ GNext \/ TNext \/ SNext \/ LNext

Spec == Init /\ [][Next]_vars

====
